---- MODULE Spec2Model ----
(***************************************************************************)
(* TicketDrop: the ticket lifecycle from dispatch to billing export.       *)
(*                                                                         *)
(* The store is the Google spreadsheet: three worksheets whose data rows   *)
(* are kept here as sequences of records (row i+1 of a worksheet is        *)
(* element i).  The operations are those of dispatch_app.py (create),      *)
(* execution/sync_driver_update.py (update_field, complete_ticket) and     *)
(* execution/axon_export.py (the export run).  The worksheets are taken    *)
(* to carry the column names the execution scripts address.                *)
(*                                                                         *)
(* Cell values: a timestamp is a number of minutes, a volume or a number   *)
(* of hours is a number of hundredths (85.5 is 8550, 4.00 is 400), an      *)
(* empty numeric or timestamp cell is Blank, an empty text cell is "".     *)
(***************************************************************************)
EXTENDS Integers, Sequences, FiniteSets, TLC

VARIABLES dispatch, active, completed, batches, clock, faults, ops, result, scanned

vars == <<dispatch, active, completed, batches, clock, faults, ops, result, scanned>>

(* ------------------------------ bounds --------------------------------- *)
MaxTickets == 2      \* create operations
MaxOps     == 5      \* operations invoked in all
MaxFaults  == 1      \* store failures

(* ----------------------------- constants ------------------------------- *)
Blank  == -1         \* an empty numeric or timestamp cell
Prefix == 200101     \* today's date as %y%m%d (a day whose 10-character numbers fit an integer)

TimestampFields == {"arrive_load", "depart_load", "arrive_offload", "depart_offload"}

ActiveHeaders ==
    {"ticket_number", "status", "arrive_load", "depart_load", "arrive_offload",
     "depart_offload", "actual_volume", "hours", "wait_time", "hazard_check",
     "signature", "updated_at"}

CompletedHeaders ==
    ActiveHeaders \cup {"completed_at", "exported", "exported_at", "export_file"}

TextHeaders == {"status", "hazard_check", "signature", "updated_at", "completed_at",
                "exported"}

\* the value gspread reads from a cell nothing was written to
EmptyCell(h) == IF h \in TextHeaders THEN "" ELSE Blank

\* Python truthiness of a cell value or dict entry: '' , 0 and 0.0 are falsy
Truthy(h, v) == IF h \in TextHeaders THEN v # "" ELSE (v # Blank /\ v # 0)

Rank(s) == CASE s = "CREATED"     -> 1
             [] s = "ASSIGNED"    -> 2
             [] s = "IN_PROGRESS" -> 3
             [] s = "COMPLETED"   -> 4
             [] OTHER             -> 0

(* ------------------------- inputs of the operations -------------------- *)
\* the dispatchers who create tickets; scanned[d] is the number d's create has
\* generated and not yet appended (0: d is not inside a create)
Dispatchers == {"d1", "d2"}

\* fields a caller of update_field names, "bogus" being no column of the sheet
UpdateFields == TimestampFields \cup {"status", "ticket_number", "bogus"}

UpdateValues(f) ==
    CASE f = "arrive_load"    -> {480}
      [] f = "depart_load"    -> {540}
      [] f = "arrive_offload" -> {660}
      [] f = "depart_offload" -> {720}
      [] f = "status"         -> {"ASSIGNED", "IN_PROGRESS"}
      [] f = "ticket_number"  -> {Prefix * 1000 + 500}
      [] OTHER                -> {0}

\* the dict a caller passes to complete_ticket: nothing; the driver's form;
\* the form with hours entered by the operator; the form with the four
\* timestamps (which calculate_hours reads from data), in order and out of order
NoData == [k \in {} |-> 0]

DriverForm == [actual_volume |-> 8550, hazard_check |-> "Y", signature |-> "Y"]

WithHours == [actual_volume |-> 8550, hours |-> 500, hazard_check |-> "Y",
              signature |-> "Y"]

WithTimes(a) == [arrive_load |-> a, depart_load |-> 540, arrive_offload |-> 660,
                 depart_offload |-> 720, actual_volume |-> 8550,
                 hazard_check |-> "Y", signature |-> "Y"]

CompletionData == {NoData, DriverForm, WithHours, WithTimes(480), WithTimes(600)}

(* ------------------------------ helpers -------------------------------- *)
\* max(S), found as the least of the negated elements
Max(S) == LET N == { 0 - y : y \in S }
          IN  0 - (CHOOSE x \in N : \A y \in N : x <= y)

SeqToSet(s) == { s[i] : i \in DOMAIN s }

\* dict.get(key, default)
Get(d, k, default) == IF k \in DOMAIN d THEN d[k] ELSE default

\* the outcome an operation returns to its caller
Outcome(op, ok, info) == [op |-> op, ok |-> ok, info |-> info]

\* every operation is one invocation by an actor
Invoke == ops < MaxOps /\ ops' = ops + 1

(* ------------------------ ticket number generator ---------------------- *)
\* f"{prefix}{seq:03d}" read back as a number
FormatNumber(prefix, seq) ==
    IF seq < 1000 THEN prefix * 1000 + seq ELSE prefix * 10000 + seq

\* num.startswith(prefix), for the 9- and 10-character numbers FormatNumber makes
StartsWith(num, prefix) == num \div 1000 = prefix \/ num \div 10000 = prefix

\* dispatch_app.generate_ticket_number: scan the three worksheets
generate_ticket_number(d, a, c) ==
    LET existing == { n \in SeqToSet(d) \cup { a[i].ticket_number : i \in DOMAIN a }
                                        \cup { c[i].ticket_number : i \in DOMAIN c } :
                      StartsWith(n, Prefix) }
        sequences == { n % 1000 : n \in existing }
    IN  IF existing = {} THEN FormatNumber(Prefix, 1)
        ELSE FormatNumber(Prefix, Max(sequences) + 1)

\* the row dispatch_app.create_ticket appends to ACTIVE TICKETS
NewActiveRow(tn) ==
    [h \in ActiveHeaders |->
        IF h = "ticket_number" THEN tn
        ELSE IF h = "status" THEN "ASSIGNED"
        ELSE EmptyCell(h)]

create_ticket ==
    /\ Len(dispatch) < MaxTickets
    /\ Invoke
    /\ LET tn == generate_ticket_number(dispatch, active, completed)
       IN  /\ dispatch' = Append(dispatch, tn)
           /\ active' = Append(active, NewActiveRow(tn))
           /\ result' = Outcome("create", TRUE, "created")
    /\ UNCHANGED <<completed, batches, clock, faults, scanned>>

(* ----------------------------- update_field ---------------------------- *)
\* the sheet row of the first record with this ticket number (0: None),
\* as an index into the data rows
find_ticket_row(rows, tn) ==
    IF \E i \in DOMAIN rows : rows[i].ticket_number = tn
    THEN CHOOSE i \in DOMAIN rows :
            /\ rows[i].ticket_number = tn
            /\ \A j \in DOMAIN rows : rows[j].ticket_number = tn => i <= j
    ELSE 0

\* an update that starts the ticket at every timestamp it records
UpdatedRow_starts_at_any_timestamp(row, field, value) ==
    [h \in ActiveHeaders |->
        IF h = "status" /\ field \in TimestampFields THEN "IN_PROGRESS"
        ELSE IF h = field THEN value
        ELSE IF h = "updated_at" THEN "now"
        ELSE row[h]]

\* the three update_cell calls of update_field on row r
UpdatedRow(row, field, value) ==
    [h \in ActiveHeaders |->
        IF h = "status" /\ field = "arrive_load" THEN "IN_PROGRESS"
        ELSE IF h = field THEN value
        ELSE IF h = "updated_at" THEN "now"
        ELSE row[h]]

update_field(tn, field, value) ==
    /\ Invoke
    /\ LET row_num == find_ticket_row(active, tn)
       IN  IF row_num = 0
           THEN /\ active' = active
                /\ result' = Outcome("update", FALSE, "not_found")
           ELSE IF field \notin ActiveHeaders
           THEN /\ active' = active
                /\ result' = Outcome("update", FALSE, "no_field")
           ELSE /\ active' = [active EXCEPT ![row_num] = UpdatedRow(@, field, value)]
                /\ result' = Outcome("update", TRUE, field)
    /\ UNCHANGED <<dispatch, completed, batches, clock, faults, scanned>>

(* ---------------------------- complete_ticket -------------------------- *)
\* the hours cut off after two decimals instead of rounded
RoundHours_truncates(m) == (10 * m) \div 6

\* round(minutes * 60 / 3600, 2) in hundredths of an hour; 5m/3 is never a tie
RoundHours(m) == IF m >= 0 THEN (10 * m + 3) \div 6 ELSE 0 - ((10 * (0 - m) + 3) \div 6)

\* a timestamp cell whose text is not an ISO date
Malformed == -2

\* datetime.fromisoformat(data.get(field, '')) succeeds
Parses(data, f) == f \in DOMAIN data /\ data[f] # Blank /\ data[f] # Malformed

calculate_hours(data) ==
    IF Parses(data, "arrive_load") /\ Parses(data, "depart_offload")
    THEN RoundHours(data.depart_offload - data.arrive_load)
    ELSE 0

\* a wait time that counts the drive between the two sites as waiting
calculate_wait_time_counts_travel(data) ==
    IF \A f \in TimestampFields : Parses(data, f)
    THEN RoundHours(data.depart_offload - data.arrive_load)
    ELSE 0

calculate_wait_time(data) ==
    IF \A f \in TimestampFields : Parses(data, f)
    THEN RoundHours((data.depart_load - data.arrive_load)
                    + (data.depart_offload - data.arrive_offload))
    ELSE 0

\* data after lines 169-172: the derived fields are computed from data itself
DerivedData(data) ==
    [k \in DOMAIN data \cup {"hours", "wait_time", "status", "completed_at"} |->
        IF k = "status" THEN "COMPLETED"
        ELSE IF k = "completed_at" THEN "now"
        ELSE IF k = "hours"
             THEN IF Truthy(k, Get(data, k, Blank)) THEN data[k] ELSE calculate_hours(data)
        ELSE IF k = "wait_time"
             THEN IF Truthy(k, Get(data, k, Blank)) THEN data[k] ELSE calculate_wait_time(data)
        ELSE data[k]]

\* the row appended to COMPLETED TICKETS: data merged over the active row,
\* laid out on the completed headers
CompletedRow(ticket_data, data) ==
    LET d == DerivedData(data)
    IN  [h \in CompletedHeaders |->
            IF h \in DOMAIN d THEN d[h]
            ELSE IF h \in DOMAIN ticket_data THEN ticket_data[h]
            ELSE EmptyCell(h)]

\* an append that replaces the record already filed under the ticket number
append_row_upsert(rows, row) ==
    IF \E i \in DOMAIN rows : rows[i].ticket_number = row.ticket_number
    THEN [i \in DOMAIN rows |->
            IF rows[i].ticket_number = row.ticket_number THEN row ELSE rows[i]]
    ELSE Append(rows, row)

\* an append that puts the new record above the records filed before
append_row_on_top(rows, row) == <<row>> \o rows

\* worksheet.append_row
append_row(rows, row) == Append(rows, row)

\* worksheet.delete_rows(row_num)
delete_rows(rows, r) == [i \in 1..(Len(rows) - 1) |-> IF i < r THEN rows[i] ELSE rows[i + 1]]

CompleteFaults == {"none", "read", "delete"}

complete_ticket(tn, data, fault) ==
    /\ Invoke
    /\ fault # "none" => faults < MaxFaults
    /\ faults' = IF fault # "none" THEN faults + 1 ELSE faults
    /\ LET row_num == find_ticket_row(active, tn)
       IN  IF fault = "read"
           THEN /\ UNCHANGED <<active, completed>>
                /\ result' = Outcome("complete", FALSE, "store_error")
           ELSE IF row_num = 0
           THEN /\ fault = "none"
                /\ UNCHANGED <<active, completed>>
                /\ result' = Outcome("complete", FALSE, "not_found")
           ELSE /\ completed' = append_row(completed, CompletedRow(active[row_num], data))
                /\ IF fault = "delete"
                   THEN /\ active' = active
                        /\ result' = Outcome("complete", FALSE, "store_error")
                   ELSE /\ active' = delete_rows(active, row_num)
                        /\ result' = Outcome("complete", TRUE, "COMPLETED")
    /\ UNCHANGED <<dispatch, batches, clock, scanned>>

(* ------------------------------ export run ----------------------------- *)
\* the loop of get_completed_tickets: tickets is the --tickets list, {} when
\* the option is absent
\* a selection that does not look at the exported flag
Selected_ignores_exported(row, tickets, force) ==
    /\ tickets = {} \/ row.ticket_number \in tickets
    /\ Truthy("actual_volume", row.actual_volume) /\ row.actual_volume > 0
    /\ Truthy("hours", row.hours) /\ row.hours > 0

Selected(row, tickets, force) ==
    /\ force \/ row.exported # "Y"
    /\ tickets = {} \/ row.ticket_number \in tickets
    /\ Truthy("actual_volume", row.actual_volume) /\ row.actual_volume > 0
    /\ Truthy("hours", row.hours) /\ row.hours > 0

\* a selection that stops at the first record it accepts
get_completed_tickets_stops_early(rows, tickets, force) ==
    LET found == SelectSeq(rows, LAMBDA row : Selected(row, tickets, force))
    IN  IF found = <<>> THEN found ELSE <<Head(found)>>

get_completed_tickets(rows, tickets, force) ==
    SelectSeq(rows, LAMBDA row : Selected(row, tickets, force))

\* a marking that flips the flag of the records it addresses
mark_as_exported_toggles(rows, ticket_numbers, export_file, now) ==
    [i \in DOMAIN rows |->
        IF rows[i].ticket_number \in ticket_numbers
        THEN [rows[i] EXCEPT !.exported = IF @ = "Y" THEN "" ELSE "Y",
                             !.exported_at = now, !.export_file = export_file]
        ELSE rows[i]]

mark_as_exported(rows, ticket_numbers, export_file, now) ==
    [i \in DOMAIN rows |->
        IF rows[i].ticket_number \in ticket_numbers
        THEN [rows[i] EXCEPT !.exported = "Y", !.exported_at = now,
                             !.export_file = export_file]
        ELSE rows[i]]

TicketNumbers(tickets) == [i \in DOMAIN tickets |-> tickets[i].ticket_number]

\* where the store fails a run: nowhere; "select": client.open or
\* spreadsheet.worksheet raises SpreadsheetNotFound or WorksheetNotFound in
\* get_completed_tickets; "write": export_to_csv raises; "mark": client.open
\* raises in mark_as_exported
ExportFaults == {"none", "select", "write", "mark"}

\* a run that marks before it writes the batch
MainMarks_before_write(rows, tickets, no_mark, fault, now) ==
    IF no_mark \/ fault = "mark" THEN rows
    ELSE mark_as_exported(rows, SeqToSet(TicketNumbers(tickets)), now, now)

\* the worksheet after main has run from a non-empty selection
MainMarks(rows, tickets, no_mark, fault, now) ==
    IF fault = "write" THEN rows
    ELSE IF no_mark \/ fault = "mark" THEN rows
    ELSE mark_as_exported(rows, SeqToSet(TicketNumbers(tickets)), now, now)

\* the run of main from its arguments to its exit
export_run(tickets_arg, force, no_mark, fault) ==
    /\ clock' = clock + 1
    /\ fault # "none" => faults < MaxFaults
    /\ faults' = IF fault # "none" THEN faults + 1 ELSE faults
    /\ LET tickets == IF fault = "select" THEN <<>>
                      ELSE get_completed_tickets(completed, tickets_arg, force)
       IN  IF tickets = <<>>
           THEN /\ fault \in {"none", "select"}
                /\ UNCHANGED <<completed, batches>>
                /\ result' = Outcome("export", TRUE, "no_tickets")
           ELSE /\ no_mark => fault # "mark"
                /\ completed' = MainMarks(completed, tickets, no_mark, fault, clock')
                /\ IF fault = "write"
                   THEN /\ batches' = batches
                        /\ result' = Outcome("export", FALSE, "write_failed")
                   ELSE /\ batches' = Append(batches, [file |-> clock', tickets |-> tickets])
                        /\ result' = Outcome("export", TRUE,
                                             IF no_mark THEN "not_marked" ELSE "marked")
    /\ UNCHANGED <<dispatch, active, scanned>>

main(tickets_arg, force, no_mark, fault) ==
    /\ Invoke
    /\ export_run(tickets_arg, force, no_mark, fault)

Init ==
    /\ dispatch = <<>>
    /\ active = <<>>
    /\ completed = <<>>
    /\ batches = <<>>
    /\ clock = 0
    /\ faults = 0
    /\ ops = 0
    /\ result = Outcome("none", TRUE, "")
    /\ scanned = [d \in Dispatchers |-> 0]

\* ticket numbers a caller may name: those created so far and one that is not
Callable == SeqToSet(dispatch) \cup {FormatNumber(Prefix, 999)}

Next ==
    \/ create_ticket
    \/ \E tn \in Callable, f \in UpdateFields :
          \E v \in UpdateValues(f) : update_field(tn, f, v)
    \/ \E tn \in Callable, data \in CompletionData, fault \in CompleteFaults :
          complete_ticket(tn, data, fault)
    \/ \E tickets_arg \in {{}} \cup {{tn} : tn \in SeqToSet(dispatch)},
          force \in BOOLEAN, no_mark \in BOOLEAN, fault \in ExportFaults :
          main(tickets_arg, force, no_mark, fault)

Spec == Init /\ [][Next]_vars

(* ------------------- the selection with every filter ------------------- *)
\* str.lower() and str.upper() on the strings that occur
Lower(s) == CASE s = "ACME" -> "acme"
              [] s = "Acme" -> "acme"
              [] s = "Beta" -> "beta"
              [] OTHER      -> s

Upper(s) == CASE s = "y"         -> "Y"
              [] s = "completed" -> "COMPLETED"
              [] s = "true"      -> "TRUE"
              [] OTHER           -> s

\* dates are YYYY-MM-DD strings compared as strings: kept as the number
\* YYYYMMDD, the empty string (and an absent filter) as 0
NoDate == 0

\* a selection that compares the customer as typed
RowPasses_case_sensitive(row, date_from, date_to, customer, ticket_numbers, force) ==
    /\ force \/ Upper(Get(row, "exported", "")) # "Y"
    /\ ticket_numbers = {} \/ Get(row, "ticket_number", Blank) \in ticket_numbers
    /\ customer = "" \/ Get(row, "customer", "") = customer
    /\ date_from = NoDate \/ ~(Get(row, "date", NoDate) < date_from)
    /\ date_to = NoDate \/ ~(Get(row, "date", NoDate) > date_to)
    /\ Truthy("actual_volume", Get(row, "actual_volume", Blank)) /\ row.actual_volume > 0
    /\ Truthy("hours", Get(row, "hours", Blank)) /\ row.hours > 0

\* one pass of the loop of get_completed_tickets: the row is appended to
\* filtered when no continue is taken
RowPasses(row, date_from, date_to, customer, ticket_numbers, force) ==
    /\ force \/ Upper(Get(row, "exported", "")) # "Y"
    /\ ticket_numbers = {} \/ Get(row, "ticket_number", Blank) \in ticket_numbers
    /\ customer = "" \/ Lower(Get(row, "customer", "")) = Lower(customer)
    /\ date_from = NoDate \/ ~(Get(row, "date", NoDate) < date_from)
    /\ date_to = NoDate \/ ~(Get(row, "date", NoDate) > date_to)
    /\ Truthy("actual_volume", Get(row, "actual_volume", Blank)) /\ row.actual_volume > 0
    /\ Truthy("hours", Get(row, "hours", Blank)) /\ row.hours > 0

\* the arguments of one call
SelectArgs ==
    [date_from : {NoDate, 20260102}, date_to : {NoDate, 20260102},
     customer : {"", "ACME"}, ticket_numbers : {{}, {FormatNumber(Prefix, 1)}},
     force : BOOLEAN]

select(a) ==
    /\ result' = Outcome("select", TRUE,
                         [args |-> a,
                          tickets |-> SelectSeq(completed, LAMBDA row :
                              RowPasses(row, a.date_from, a.date_to, a.customer,
                                        a.ticket_numbers, a.force))])
    /\ UNCHANGED <<dispatch, active, completed, batches, clock, faults, ops, scanned>>

\* the completed worksheet with the customer and date columns: record i is
\* ticket i of the day
MaxRows == 2

BilledRow(i, customer, date, exported, hours) ==
    [h \in CompletedHeaders \cup {"customer", "date"} |->
        CASE h = "ticket_number" -> FormatNumber(Prefix, i)
          [] h = "customer"      -> customer
          [] h = "date"          -> date
          [] h = "exported"      -> exported
          [] h = "hours"         -> hours
          [] h = "actual_volume" -> 8550
          [] h = "status"        -> "COMPLETED"
          [] OTHER               -> EmptyCell(h)]

BilledRows(i) ==
    { BilledRow(i, c, d, e, hrs) :
        c \in {"Acme", "Beta"}, d \in {20260101, 20260103}, e \in {"", "Y"},
        hrs \in {0, 500} }

InitSelect ==
    /\ \E n \in 0..MaxRows :
          completed \in { rows \in [1..n -> UNION { BilledRows(i) : i \in 1..n }] :
                            \A i \in 1..n : rows[i] \in BilledRows(i) }
    /\ dispatch = [i \in DOMAIN completed |-> completed[i].ticket_number]
    /\ active = <<>>
    /\ batches = <<>>
    /\ clock = 0
    /\ faults = 0
    /\ ops = 0
    /\ result = Outcome("none", TRUE, "")
    /\ scanned = [d \in Dispatchers |-> 0]

NextSelect == \E a \in SelectArgs : select(a)

SpecSelect == InitSelect /\ [][NextSelect]_vars

(* ----------------- execution/create_ticket.py: the script -------------- *)
\* len(num) == 9
NineChars(num) == num >= 100000000 /\ num <= 999999999

\* what the scan cannot reach: nothing, the spreadsheet (client.open raises)
\* or one worksheet (spreadsheet.worksheet or get_all_records raises)
ScanFaults == {"none", "spreadsheet", "dispatch", "active", "completed"}

\* a generator that hands out the highest sequence found
script_generate_ticket_number_repeats(d, a, c, unavailable) ==
    LET existing_numbers ==
            { n \in { d[i] : i \in DOMAIN d } \cup { a[i].ticket_number : i \in DOMAIN a }
                                             \cup { c[i].ticket_number : i \in DOMAIN c } :
              StartsWith(n, Prefix) }
    IN  IF existing_numbers = {} THEN FormatNumber(Prefix, 1)
        ELSE FormatNumber(Prefix, Max({ n % 1000 : n \in existing_numbers }))

\* create_ticket.generate_ticket_number
script_generate_ticket_number(d, a, c, unavailable) ==
    IF unavailable = "spreadsheet" THEN FormatNumber(Prefix, 1)
    ELSE LET read(name, numbers) == IF unavailable = name THEN {} ELSE numbers
             existing_numbers ==
                 { n \in read("dispatch", { d[i] : i \in DOMAIN d })
                         \cup read("active", { a[i].ticket_number : i \in DOMAIN a })
                         \cup read("completed", { c[i].ticket_number : i \in DOMAIN c }) :
                   StartsWith(n, Prefix) }
             sequences == { n % 1000 : n \in { m \in existing_numbers : NineChars(m) } }
         IN  IF existing_numbers = {} THEN FormatNumber(Prefix, 1)
             ELSE IF sequences # {} THEN FormatNumber(Prefix, Max(sequences) + 1)
             ELSE FormatNumber(Prefix, 1)

\* create_ticket.create_ticket: valid is the verdict of validate_ticket,
\* append_fails a store failure at the append to DISPATCH BOARD
script_create_ticket(valid, unavailable, append_fails) ==
    /\ Invoke
    /\ (unavailable # "none" \/ append_fails) => (valid /\ faults < MaxFaults)
    /\ faults' = IF unavailable # "none" \/ append_fails THEN faults + 1 ELSE faults
    /\ IF ~valid
       THEN /\ dispatch' = dispatch
            /\ result' = Outcome("script_create", FALSE,
                                 [number |-> 0, unavailable |-> "none"])
       ELSE LET ticket_number ==
                    script_generate_ticket_number(dispatch, active, completed, unavailable)
            IN  /\ dispatch' = IF append_fails THEN dispatch
                               ELSE Append(dispatch, ticket_number)
                /\ result' = Outcome("script_create", ~append_fails,
                                     [number |-> ticket_number,
                                      unavailable |-> unavailable])
    /\ UNCHANGED <<active, completed, batches, clock, scanned>>

\* tickets the script has created earlier in the day
DayCounts == {0, 1, 2, 998}

InitScript ==
    /\ \E k \in DayCounts : dispatch = [i \in 1..k |-> FormatNumber(Prefix, i)]
    /\ active = <<>>
    /\ completed = <<>>
    /\ batches = <<>>
    /\ clock = 0
    /\ faults = 0
    /\ ops = 0
    /\ result = Outcome("none", TRUE, "")
    /\ scanned = [d \in Dispatchers |-> 0]

NextScript ==
    \E valid \in BOOLEAN, unavailable \in ScanFaults, append_fails \in BOOLEAN :
        script_create_ticket(valid, unavailable, append_fails)

SpecScript == InitScript /\ [][NextScript]_vars

(* --------------- create_ticket as two dispatchers run it -------------- *)
\* dispatchers that have generated a number and not yet appended their rows
InCreate == { d \in Dispatchers : scanned[d] # 0 }

\* create_ticket up to the return of generate_ticket_number
create_scan(d) ==
    /\ scanned[d] = 0
    /\ Len(dispatch) + Cardinality(InCreate) < MaxTickets
    /\ Invoke
    /\ scanned' = [scanned EXCEPT ![d] = generate_ticket_number(dispatch, active, completed)]
    /\ UNCHANGED <<dispatch, active, completed, batches, clock, faults, result>>

\* an append that generates the number afresh
create_append_rescans(d) ==
    /\ scanned[d] # 0
    /\ LET tn == generate_ticket_number(dispatch, active, completed)
       IN  /\ dispatch' = Append(dispatch, tn)
           /\ active' = Append(active, NewActiveRow(tn))
    /\ scanned' = [scanned EXCEPT ![d] = 0]
    /\ result' = Outcome("create", TRUE, "created")
    /\ UNCHANGED <<completed, batches, clock, faults, ops>>

\* the rest of create_ticket: the two append_row calls
create_append(d) ==
    /\ scanned[d] # 0
    /\ dispatch' = Append(dispatch, scanned[d])
    /\ active' = Append(active, NewActiveRow(scanned[d]))
    /\ scanned' = [scanned EXCEPT ![d] = 0]
    /\ result' = Outcome("create", TRUE, "created")
    /\ UNCHANGED <<completed, batches, clock, faults, ops>>

NextRace ==
    \/ \E d \in Dispatchers : create_scan(d)
    \/ \E d \in Dispatchers : create_append(d)
    \/ \E tn \in Callable, f \in UpdateFields :
          \E v \in UpdateValues(f) : update_field(tn, f, v)
    \/ \E tn \in Callable, data \in CompletionData, fault \in CompleteFaults :
          complete_ticket(tn, data, fault)

SpecRace == Init /\ [][NextRace]_vars

(* ------------------- a ticket that has been dispatched ----------------- *)
\* the store right after the first create_ticket of the day
InitDispatched ==
    /\ dispatch = <<FormatNumber(Prefix, 1)>>
    /\ active = <<NewActiveRow(FormatNumber(Prefix, 1))>>
    /\ completed = <<>>
    /\ batches = <<>>
    /\ clock = 0
    /\ faults = 0
    /\ ops = 0
    /\ result = Outcome("create", TRUE, "created")
    /\ scanned = [d \in Dispatchers |-> 0]

SpecDispatched == InitDispatched /\ [][Next]_vars

(* ---------- update_field and complete_ticket as two workers run them ---- *)
\* the drivers and operators working on the sheet at the same time; in this
\* part scanned[w] is what w's operation has read and not yet acted on
Workers == {"w1", "w2"}

NotReading == [op |-> "none"]

\* a sheet row nothing was written to
BlankRow == [h \in ActiveHeaders |-> EmptyCell(h)]

\* the update_cell calls of update_field on sheet row r, which may lie below
\* the last data row
WriteCells(rows, r, field, value) ==
    LET grid == rows \o [i \in 1..(r - Len(rows)) |-> BlankRow]
    IN  [grid EXCEPT ![r] = UpdatedRow(@, field, value)]

\* update_field up to the column lookup: the row number is in hand
update_find(w, tn, field, value) ==
    /\ scanned[w].op = "none"
    /\ Invoke
    /\ LET row_num == find_ticket_row(active, tn)
       IN  IF row_num = 0
           THEN /\ scanned' = scanned
                /\ result' = Outcome("update", FALSE, "not_found")
           ELSE IF field \notin ActiveHeaders
           THEN /\ scanned' = scanned
                /\ result' = Outcome("update", FALSE, "no_field")
           ELSE /\ scanned' = [scanned EXCEPT ![w] =
                                  [op |-> "update", tn |-> tn, row |-> row_num,
                                   field |-> field, value |-> value]]
                /\ result' = result
    /\ UNCHANGED <<dispatch, active, completed, batches, clock, faults>>

\* the rest of update_field: the cell writes on the row number found
update_write(w) ==
    /\ scanned[w].op = "update"
    /\ active' = WriteCells(active, scanned[w].row, scanned[w].field, scanned[w].value)
    /\ scanned' = [scanned EXCEPT ![w] = NotReading]
    /\ result' = Outcome("update", TRUE, scanned[w].field)
    /\ UNCHANGED <<dispatch, completed, batches, clock, faults, ops>>

\* complete_ticket up to the read of the row: row number and row data in hand
complete_find(w, tn, data) ==
    /\ scanned[w].op = "none"
    /\ Invoke
    /\ LET row_num == find_ticket_row(active, tn)
       IN  IF row_num = 0
           THEN /\ scanned' = scanned
                /\ result' = Outcome("complete", FALSE, "not_found")
           ELSE /\ scanned' = [scanned EXCEPT ![w] =
                                  [op |-> "complete", tn |-> tn, row |-> row_num,
                                   ticket_data |-> active[row_num], data |-> data]]
                /\ result' = result
    /\ UNCHANGED <<dispatch, active, completed, batches, clock, faults>>

\* the rest of complete_ticket: the append and the delete of the row number found
complete_move(w) ==
    /\ scanned[w].op = "complete"
    /\ completed' = append_row(completed,
                               CompletedRow(scanned[w].ticket_data, scanned[w].data))
    /\ active' = IF scanned[w].row <= Len(active)
                 THEN delete_rows(active, scanned[w].row)
                 ELSE active
    /\ scanned' = [scanned EXCEPT ![w] = NotReading]
    /\ result' = Outcome("complete", TRUE, "COMPLETED")
    /\ UNCHANGED <<dispatch, batches, clock, faults, ops>>

\* the sheet after the dispatcher has created the tickets of the morning
InitWorkers ==
    /\ dispatch = [i \in 1..(MaxTickets + 1) |-> FormatNumber(Prefix, i)]
    /\ active = [i \in 1..(MaxTickets + 1) |-> NewActiveRow(FormatNumber(Prefix, i))]
    /\ completed = <<>>
    /\ batches = <<>>
    /\ clock = 0
    /\ faults = 0
    /\ ops = 0
    /\ result = Outcome("create", TRUE, "created")
    /\ scanned = [w \in Workers |-> NotReading]

NextWorkers ==
    \/ \E w \in Workers, tn \in SeqToSet(dispatch) :
          update_find(w, tn, "depart_load", 540)
    \/ \E w \in Workers : update_write(w)
    \/ \E w \in Workers, tn \in SeqToSet(dispatch) : complete_find(w, tn, DriverForm)
    \/ \E w \in Workers : complete_move(w)

SpecWorkers == InitWorkers /\ [][NextWorkers]_vars

(* ------------- the export run, with completions arriving -------------- *)
\* the export run between two of its calls to the store: not running
NotExporting == [op |-> "none"]

\* the three update_cell calls of mark_as_exported on sheet row i
MarkCells(rows, i, export_file, now) ==
    IF i \in DOMAIN rows
    THEN [rows EXCEPT ![i] = [@ EXCEPT !.exported = "Y", !.exported_at = now,
                                       !.export_file = export_file]]
    ELSE rows

\* main up to mark_as_exported: the selection is read and the batch written
export_select(tickets_arg, force) ==
    /\ scanned.op = "none"
    /\ Invoke
    /\ clock' = clock + 1
    /\ LET tickets == get_completed_tickets(completed, tickets_arg, force)
       IN  IF tickets = <<>>
           THEN /\ UNCHANGED <<batches, scanned>>
                /\ result' = Outcome("export", TRUE, "no_tickets")
           ELSE /\ batches' = Append(batches, [file |-> clock', tickets |-> tickets])
                /\ scanned' = [op |-> "written", file |-> clock',
                               numbers |-> SeqToSet(TicketNumbers(tickets))]
                /\ result' = result
    /\ UNCHANGED <<dispatch, active, completed, faults>>

\* mark_as_exported reads the records of the sheet; its loop starts at the
\* first of them
mark_read ==
    /\ scanned.op = "written"
    /\ scanned' = [op |-> "mark", file |-> scanned.file, numbers |-> scanned.numbers,
                   records |-> TicketNumbers(completed), row |-> 1]
    /\ UNCHANGED <<dispatch, active, completed, batches, clock, faults, ops, result>>

\* one turn of the loop of mark_as_exported, on the record it read at row
mark_row ==
    /\ scanned.op = "mark"
    /\ scanned.row <= Len(scanned.records)
    /\ completed' = IF scanned.records[scanned.row] \in scanned.numbers
                    THEN MarkCells(completed, scanned.row, scanned.file, scanned.file)
                    ELSE completed
    /\ scanned' = [scanned EXCEPT !.row = @ + 1]
    /\ UNCHANGED <<dispatch, active, batches, clock, faults, ops, result>>

\* the loop is over: mark_as_exported returns and main reports the marking
mark_done ==
    /\ scanned.op = "mark"
    /\ scanned.row > Len(scanned.records)
    /\ scanned' = NotExporting
    /\ result' = Outcome("export", TRUE, "marked")
    /\ UNCHANGED <<dispatch, active, completed, batches, clock, faults, ops>>

\* the tickets of the morning are out with the drivers
InitMarking ==
    /\ dispatch = [i \in 1..MaxTickets |-> FormatNumber(Prefix, i)]
    /\ active = [i \in 1..MaxTickets |-> NewActiveRow(FormatNumber(Prefix, i))]
    /\ completed = <<>>
    /\ batches = <<>>
    /\ clock = 0
    /\ faults = 0
    /\ ops = 0
    /\ result = Outcome("create", TRUE, "created")
    /\ scanned = NotExporting

NextMarking ==
    \/ \E tn \in SeqToSet(dispatch), data \in {DriverForm, WithHours},
          fault \in {"none", "delete"} : complete_ticket(tn, data, fault)
    \/ \E tickets_arg \in {{}, {dispatch[1]}}, force \in BOOLEAN :
          export_select(tickets_arg, force)
    \/ mark_read
    \/ mark_row
    \/ mark_done

SpecMarking == InitMarking /\ [][NextMarking]_vars

(* ------------------- the export run, run again and again ---------------- *)
\* axon_export.py --export-all, as the office runs it time after time: a run
\* that finds nothing to export changes no record and is left out here, which
\* keeps the number of runs finite
export_all ==
    /\ get_completed_tickets(completed, {}, FALSE) # <<>>
    /\ export_run({}, FALSE, FALSE, "none")
    /\ UNCHANGED ops

NextRepeated ==
    \/ \E tn \in SeqToSet(dispatch), data \in {DriverForm, WithHours} :
          complete_ticket(tn, data, "none")
    \/ main({}, FALSE, TRUE, "none")
    \/ export_all

\* the export-all run is repeated for as long as it finds tickets
SpecRepeated == InitMarking /\ [][NextRepeated]_vars /\ WF_vars(export_all)

(* --------------------- the functions, applied to inputs ---------------- *)
\* what a timestamp field holds: nothing, text that is no date, or a minute
\* of the day 08:00 .. 16:30 or of the next day (1920 is 08:00, 1980 is 09:00)
Stamps == {Blank, Malformed, 480, 520, 600, 990, 1920, 1980}

StampData == [TimestampFields -> Stamps]

\* a function is applied once, to one input, by a caller that has done nothing yet
Idle == result.op = "none"

\* the last outcome of a function applied to an input
Applied(name, input, out) == Outcome(name, TRUE, [in |-> input, out |-> out])

apply_calculate_hours(data) ==
    /\ result' = Applied("calculate_hours", data, calculate_hours(data))
    /\ UNCHANGED <<dispatch, active, completed, batches, clock, faults, ops, scanned>>

apply_calculate_wait_time(data) ==
    /\ result' = Applied("calculate_wait_time", data, calculate_wait_time(data))
    /\ UNCHANGED <<dispatch, active, completed, batches, clock, faults, ops, scanned>>

(* ------------------ execution/validate_ticket.py ----------------------- *)
\* the order in which the code walks the timestamp fields
FieldOrder == <<"arrive_load", "depart_load", "arrive_offload", "depart_offload">>

\* an entry of an error or warning list: the message and what it is about
Entry(message, about) == <<message, about>>

\* [e] if cond else []
When(cond, e) == IF cond THEN <<e>> ELSE <<>>

\* a validate_timestamps that lets equal adjacent timestamps pass
validate_timestamps_allows_equal(data) ==
    LET bad == SelectSeq(FieldOrder, LAMBDA f : Get(data, f, Blank) = Malformed)
        has(f) == Parses(data, f)
    IN  IF bad # <<>>
        THEN [i \in DOMAIN bad |-> Entry("Invalid timestamp format", bad[i])]
        ELSE When(has("depart_load") /\ has("arrive_load")
                    /\ data.depart_load < data.arrive_load,
                  Entry("Departed pickup before arriving", ""))
             \o When(has("arrive_offload") /\ has("depart_load")
                       /\ data.arrive_offload < data.depart_load,
                     Entry("Arrived at delivery before leaving pickup", ""))
             \o When(has("depart_offload") /\ has("arrive_offload")
                       /\ data.depart_offload < data.arrive_offload,
                     Entry("Departed delivery before arriving", ""))
             \o When(has("arrive_load") /\ has("depart_offload")
                       /\ data.depart_offload - data.arrive_load > 24 * 60,
                     Entry("Total time exceeds 24 hours", ""))

validate_timestamps(data) ==
    LET bad == SelectSeq(FieldOrder, LAMBDA f : Get(data, f, Blank) = Malformed)
        has(f) == Parses(data, f)
    IN  IF bad # <<>>
        THEN [i \in DOMAIN bad |-> Entry("Invalid timestamp format", bad[i])]
        ELSE When(has("depart_load") /\ has("arrive_load")
                    /\ data.depart_load <= data.arrive_load,
                  Entry("Departed pickup before arriving", ""))
             \o When(has("arrive_offload") /\ has("depart_load")
                       /\ data.arrive_offload <= data.depart_load,
                     Entry("Arrived at delivery before leaving pickup", ""))
             \o When(has("depart_offload") /\ has("arrive_offload")
                       /\ data.depart_offload <= data.arrive_offload,
                     Entry("Departed delivery before arriving", ""))
             \o When(has("arrive_load") /\ has("depart_offload")
                       /\ data.depart_offload - data.arrive_load > 24 * 60,
                     Entry("Total time exceeds 24 hours", ""))

apply_validate_timestamps(data) ==
    /\ result' = Applied("validate_timestamps", data, validate_timestamps(data))
    /\ UNCHANGED <<dispatch, active, completed, batches, clock, faults, ops, scanned>>

Abs(x) == IF x < 0 THEN 0 - x ELSE x

\* a validate_volume that warns from a variance of 20% on
validate_volume_warns_at_20(actual_volume, est_volume) ==
    [errors   |-> When(actual_volume <= 0, Entry("Volume must be greater than 0", "")),
     warnings |-> When(actual_volume > 50000, Entry("Volume seems high", ""))
                  \o When(est_volume # 0 /\ est_volume > 0
                            /\ 5 * Abs(actual_volume - est_volume) >= est_volume,
                          Entry("Actual differs from estimated", ""))]

\* volumes in hundredths; est_volume 0 is None or 0; diff_pct > 0.20 is
\* 5 * |actual - est| > est
validate_volume(actual_volume, est_volume) ==
    [errors   |-> When(actual_volume <= 0, Entry("Volume must be greater than 0", "")),
     warnings |-> When(actual_volume > 50000, Entry("Volume seems high", ""))
                  \o When(est_volume # 0 /\ est_volume > 0
                            /\ 5 * Abs(actual_volume - est_volume) > est_volume,
                          Entry("Actual differs from estimated", ""))]

ActualVolumes == {-100, 0, 1, 7999, 8000, 11500, 12000, 12001, 12500, 50000, 50001, 60000}

EstVolumes == {-10000, 0, 10000, 55000}

apply_validate_volume(actual_volume, est_volume) ==
    /\ result' = Applied("validate_volume",
                         [actual_volume |-> actual_volume, est_volume |-> est_volume],
                         validate_volume(actual_volume, est_volume))
    /\ UNCHANGED <<dispatch, active, completed, batches, clock, faults, ops, scanned>>

\* float(data.get(key, 0) or 0)
FloatOrZero(data, key) ==
    IF Truthy(key, Get(data, key, Blank)) THEN data[key] ELSE 0

\* the entries the completion profile collects, in the order of the code
CompletionErrors(data) ==
    LET missing == SelectSeq(FieldOrder, LAMBDA f : ~Truthy(f, Get(data, f, Blank)))
        ts_errors == validate_timestamps(data)
        volume == validate_volume(FloatOrZero(data, "actual_volume"),
                                  FloatOrZero(data, "est_volume"))
    IN  [i \in DOMAIN missing |-> Entry("Required timestamp", missing[i])]
        \o [i \in DOMAIN ts_errors |-> Entry(ts_errors[i], "timestamps")]
        \o [i \in DOMAIN volume.errors |-> Entry(volume.errors[i], "actual_volume")]
        \o When(~Truthy("hazard_check", Get(data, "hazard_check", ""))
                  \/ Upper(Get(data, "hazard_check", "")) # "Y",
                Entry("Hazard assessment required", "hazard_check"))
        \o When(~Truthy("signature", Get(data, "signature", ""))
                  \/ Upper(Get(data, "signature", "")) # "Y",
                Entry("Driver signature required", "signature"))

CompletionWarnings(data) ==
    LET volume == validate_volume(FloatOrZero(data, "actual_volume"),
                                  FloatOrZero(data, "est_volume"))
    IN  [i \in DOMAIN volume.warnings |-> Entry(volume.warnings[i], "actual_volume")]

\* a completion profile that a warning makes invalid
validate_completion_warnings_block(data) ==
    [stage |-> "completion",
     valid |-> Len(CompletionErrors(data)) = 0 /\ Len(CompletionWarnings(data)) = 0,
     errors |-> CompletionErrors(data),
     warnings |-> CompletionWarnings(data)]

validate_completion(data) ==
    [stage |-> "completion",
     valid |-> Len(CompletionErrors(data)) = 0,
     errors |-> CompletionErrors(data),
     warnings |-> CompletionWarnings(data)]

\* the dicts validate_completion is applied to
CompletionInputs ==
    [arrive_load : {Blank, Malformed, 480, 540}, depart_load : {Blank, Malformed, 480, 540},
     arrive_offload : {Blank, Malformed, 480, 600}, depart_offload : {Blank, Malformed, 660},
     actual_volume : {Blank, 0, 8550, 60000}, est_volume : {Blank, 10000},
     hazard_check : {"", "Y", "y", "N"}, signature : {"", "Y", "true"}]

apply_validate_completion(data) ==
    /\ result' = Applied("validate_completion", data, validate_completion(data))
    /\ UNCHANGED <<dispatch, active, completed, batches, clock, faults, ops, scanned>>

\* an export profile that does not look at the status
validate_export_any_status(data) ==
    LET errors ==
            When(~Truthy("actual_volume", Get(data, "actual_volume", Blank))
                   \/ data.actual_volume <= 0,
                 Entry("Cannot export ticket with zero volume", "actual_volume"))
            \o When(~Truthy("hours", Get(data, "hours", Blank)) \/ data.hours <= 0,
                    Entry("Cannot export ticket with zero hours", "hours"))
            \o When(~Truthy("arrive_load", Get(data, "arrive_load", Blank)),
                    Entry("Invalid arrival timestamp", "arrive_load"))
    IN  [stage |-> "export", valid |-> Len(errors) = 0, errors |-> errors,
         warnings |-> <<>>]

validate_export(data) ==
    LET errors ==
            When(Upper(Get(data, "status", "")) # "COMPLETED",
                 Entry("Only completed tickets can be exported", "status"))
            \o When(~Truthy("actual_volume", Get(data, "actual_volume", Blank))
                      \/ data.actual_volume <= 0,
                    Entry("Cannot export ticket with zero volume", "actual_volume"))
            \o When(~Truthy("hours", Get(data, "hours", Blank)) \/ data.hours <= 0,
                    Entry("Cannot export ticket with zero hours", "hours"))
            \o When(~Truthy("arrive_load", Get(data, "arrive_load", Blank)),
                    Entry("Invalid arrival timestamp", "arrive_load"))
    IN  [stage |-> "export", valid |-> Len(errors) = 0, errors |-> errors,
         warnings |-> <<>>]

ExportInputs ==
    [status : {"", "ASSIGNED", "IN_PROGRESS", "COMPLETED", "completed"},
     actual_volume : {Blank, 0, -100, 8550}, hours : {Blank, 0, -50, 400},
     arrive_load : {Blank, Malformed, 480}]

apply_validate_export(data) ==
    /\ result' = Applied("validate_export", data, validate_export(data))
    /\ UNCHANGED <<dispatch, active, completed, batches, clock, faults, ops, scanned>>

\* value.strip() of the location strings tickets are created with
Strip(value) == CASE value = "  "  -> ""
                  [] value = " Y " -> "Y"
                  [] OTHER         -> value

\* len(value)
CharCount(value) == CASE value = ""             -> 0
                      [] value = "  "           -> 2
                      [] value = "X"            -> 1
                      [] value = "Y"            -> 1
                      [] value = " Y "          -> 3
                      [] value = "1-2-3-4W5"    -> 9
                      [] value = "10-20-30-4W5" -> 12
                      [] value = "Lease A"      -> 7

\* re.match(r'^\d{1,2}-\d{1,2}-\d{1,3}-\d{1,2}W\d$', value)
MatchesLsd(value) == value \in {"1-2-3-4W5", "10-20-30-4W5"}

\* the message validate_lsd returns, None (here "") when the value is valid
validate_lsd(value) ==
    IF value = "" \/ Strip(value) = "" THEN "Location required"
    ELSE IF MatchesLsd(Strip(value)) THEN ""
    ELSE IF CharCount(Strip(value)) >= 2 THEN ""
    ELSE "Invalid location format"

RequiredFields == <<"customer", "from_lsd", "to_lsd", "product", "driver", "truck">>

\* the "if settings.get(LIST): if data.get(field) and data[field] not in ..." block
Unknown(data, settings, field, list) ==
    /\ Get(settings, list, {}) # {}
    /\ Get(data, field, "") # ""
    /\ data[field] \notin settings[list]

validate_creation(data, settings) ==
    LET missing == SelectSeq(RequiredFields, LAMBDA f : Get(data, f, "") = "")
        places == SelectSeq(<<"from_lsd", "to_lsd">>,
                            LAMBDA f : Get(data, f, "") # "" /\ validate_lsd(data[f]) # "")
        errors ==
            [i \in DOMAIN missing |-> Entry("Required field", missing[i])]
            \o When(Unknown(data, settings, "customer", "CUSTOMERS"),
                    Entry("Unknown customer", "customer"))
            \o When(Unknown(data, settings, "driver", "DRIVERS"),
                    Entry("Unknown driver", "driver"))
            \o When(Unknown(data, settings, "product", "PRODUCTS"),
                    Entry("Unknown product", "product"))
            \o When(Unknown(data, settings, "truck", "TRUCKS"),
                    Entry("Unknown truck", "truck"))
            \o [i \in DOMAIN places |-> Entry(validate_lsd(data[places[i]]), places[i])]
    IN  [stage |-> "creation", valid |-> Len(errors) = 0, errors |-> errors,
         warnings |-> <<>>]

\* execution/create_ticket.py: the list of messages create_ticket looks at
validate_ticket(ticket_data, settings) ==
    LET missing == SelectSeq(RequiredFields, LAMBDA f : Get(ticket_data, f, "") = "")
    IN  [i \in DOMAIN missing |-> Entry("Missing required field", missing[i])]
        \o When(Unknown(ticket_data, settings, "customer", "CUSTOMERS"),
                Entry("Unknown customer", "customer"))
        \o When(Unknown(ticket_data, settings, "driver", "DRIVERS"),
                Entry("Unknown driver", "driver"))
        \o When(Unknown(ticket_data, settings, "product", "PRODUCTS"),
                Entry("Unknown product", "product"))
        \o When(Unknown(ticket_data, settings, "truck", "TRUCKS"),
                Entry("Unknown truck", "truck"))
        \o When(Unknown(ticket_data, settings, "trailer", "TRAILERS"),
                Entry("Unknown trailer", "trailer"))

\* the SETTINGS lists: none filled in, or all of them
NoSettings == [CUSTOMERS |-> {}, DRIVERS |-> {}, PRODUCTS |-> {}, TRUCKS |-> {},
               TRAILERS |-> {}]
FullSettings == [CUSTOMERS |-> {"Acme"}, DRIVERS |-> {"Rick"}, PRODUCTS |-> {"Water"},
                 TRUCKS |-> {"T1"}, TRAILERS |-> {"TR1"}]
SettingsInputs == {NoSettings, FullSettings}

CreationInputs ==
    [customer : {"", "Acme", "Nobody"}, driver : {"", "Rick", "Ghost"},
     product : {"Water", "Mud"}, truck : {"T1", "T9"}, trailer : {"", "TR1", "TR9"},
     from_lsd : {"", "  ", "X", "1-2-3-4W5", "Lease A"},
     to_lsd : {"", " Y ", "10-20-30-4W5"}]

apply_validate_creation(data, settings) ==
    /\ result' = Applied("validate_creation", [data |-> data, settings |-> settings],
                         validate_creation(data, settings))
    /\ UNCHANGED <<dispatch, active, completed, batches, clock, faults, ops, scanned>>

\* create_ticket of the script up to its early return: {"success": False, "errors": ...}
apply_validate_ticket(ticket_data, settings) ==
    /\ result' = Applied("validate_ticket",
                         [data |-> ticket_data, settings |-> settings],
                         [valid |-> Len(validate_ticket(ticket_data, settings)) = 0,
                          errors |-> validate_ticket(ticket_data, settings)])
    /\ UNCHANGED <<dispatch, active, completed, batches, clock, faults, ops, scanned>>

(* ---------------- execution/axon_export.py: the AXON record ------------ *)
AXON_COLUMNS ==
    <<"Attachment", "Customer", "Location", "Start Date", "Reference", "Ticket#",
      "Truck#", "Operator", "Trailer#", "Product", "Actual Vol", "Product2",
      "From LSD", "To LSD", "Hours", "Charge", "Job Desc", "Company", "Status">>

\* a name is the sequence of its words: 'First Last' becomes 'Last, First'
format_operator_name(driver_name) ==
    IF Len(driver_name) >= 2
    THEN <<driver_name[Len(driver_name)], ",", driver_name[1]>>
    ELSE driver_name

\* a timestamp that parses is written as day and HH:MM, any other value is
\* returned as it came
format_start_date(timestamp) ==
    IF timestamp # Blank /\ timestamp # Malformed
    THEN [day |-> Prefix, hh |-> timestamp \div 60, mm |-> timestamp % 60]
    ELSE timestamp

\* the text str() would give: the shortest decimals, at least one
TwoDecimals_shortest(thousandths) ==
    LET cents == (Abs(thousandths) + 5) \div 10
    IN  [negative |-> thousandths < 0,
         whole |-> cents \div 100,
         decimals |-> IF cents % 10 # 0 THEN <<(cents \div 10) % 10, cents % 10>>
                      ELSE <<(cents \div 10) % 10>>]

\* f"{float(x):.2f}" of a value given in thousandths: the sign, the digits
\* before the point and the digits after it
TwoDecimals(thousandths) ==
    LET cents == (Abs(thousandths) + 5) \div 10
    IN  [negative |-> thousandths < 0,
         whole |-> cents \div 100,
         decimals |-> <<(cents \div 10) % 10, cents % 10>>]

\* the dict of transform_to_axon, as its items in insertion order
transform_to_axon(ticket) ==
    <<<<"Attachment", "FALSE">>,
      <<"Customer", Get(ticket, "customer", "")>>,
      <<"Location", <<Get(ticket, "from_lsd", ""), " to ", Get(ticket, "to_lsd", "")>>>>,
      <<"Start Date", format_start_date(Get(ticket, "arrive_load", Blank))>>,
      <<"Reference", "">>,
      <<"Ticket#", Get(ticket, "ticket_number", Blank)>>,
      <<"Truck#", Get(ticket, "truck", "")>>,
      <<"Operator", format_operator_name(Get(ticket, "driver", <<>>))>>,
      <<"Trailer#", Get(ticket, "trailer", "")>>,
      <<"Product", Get(ticket, "product", "")>>,
      <<"Actual Vol", TwoDecimals(Get(ticket, "actual_volume", 0))>>,
      <<"Product2", "">>,
      <<"From LSD", Get(ticket, "from_lsd", "")>>,
      <<"To LSD", Get(ticket, "to_lsd", "")>>,
      <<"Hours", TwoDecimals(Get(ticket, "hours", 0))>>,
      <<"Charge", "">>,
      <<"Job Desc", <<Get(ticket, "product", ""), " - ", Get(ticket, "customer", "")>>>>,
      <<"Company", "Rick's Oilfield Hauling">>,
      <<"Status", "Completed">>>>

\* the tickets transform_to_axon is applied to; volume and hours in thousandths
\* (no value half-way between two hundredths), an empty cell is Blank
AxonInputs ==
    [ticket_number : {Prefix * 1000 + 1}, customer : {"Acme"}, product : {"Water"},
     truck : {"T1"}, trailer : {"", "TR1"}, from_lsd : {"1-2-3-4W5"},
     to_lsd : {"Lease A"},
     driver : {<<>>, <<"Rick">>, <<"Rick", "Jones">>, <<"Rick", "van", "Jones">>},
     arrive_load : {Blank, Malformed, 480},
     actual_volume : {Blank, 0, 4000, 85500, 85554, 85556, 1234567},
     hours : {Blank, -2000, 670, 4000, 8500, 8504}]

\* float('') raises ValueError: no record comes back
apply_transform_to_axon(ticket) ==
    /\ result' = IF ticket.actual_volume = Blank \/ ticket.hours = Blank
                 THEN Outcome("transform_to_axon", FALSE, [in |-> ticket])
                 ELSE Applied("transform_to_axon", ticket, transform_to_axon(ticket))
    /\ UNCHANGED <<dispatch, active, completed, batches, clock, faults, ops, scanned>>

(* ------------------ ar_export_app.py: the AXON record ------------------ *)
\* the digits of n thousandths after the point, without trailing zeros
Decimals(n) ==
    IF n % 1000 = 0 THEN <<>>
    ELSE IF n % 100 = 0 THEN <<(n \div 100) % 10>>
    ELSE IF n % 10 = 0 THEN <<(n \div 100) % 10, (n \div 10) % 10>>
    ELSE <<(n \div 100) % 10, (n \div 10) % 10, n % 10>>

\* a cell value put into the record as it was read: the number as the sheet
\* holds it, '' for an empty cell
PlainText(thousandths) ==
    IF thousandths = Blank THEN ""
    ELSE [negative |-> thousandths < 0,
          whole |-> Abs(thousandths) \div 1000,
          decimals |-> Decimals(Abs(thousandths))]

\* the row generate_axon_csv builds for one ticket, as its items in order
generate_axon_csv(ticket) ==
    <<<<"Attachment", "FALSE">>,
      <<"Customer", Get(ticket, "customer", "")>>,
      <<"Location", <<Get(ticket, "from_lsd", ""), " to ", Get(ticket, "to_lsd", "")>>>>,
      <<"Start Date", format_start_date(Get(ticket, "arrive_load", Blank))>>,
      <<"Reference", "">>,
      <<"Ticket#", Get(ticket, "ticket_number", Blank)>>,
      <<"Truck#", Get(ticket, "truck", "")>>,
      <<"Operator", format_operator_name(Get(ticket, "driver", <<>>))>>,
      <<"Trailer#", Get(ticket, "trailer", "")>>,
      <<"Product", Get(ticket, "product", "")>>,
      <<"Actual Vol", PlainText(Get(ticket, "actual_volume", Blank))>>,
      <<"Product2", "">>,
      <<"From LSD", Get(ticket, "from_lsd", "")>>,
      <<"To LSD", Get(ticket, "to_lsd", "")>>,
      <<"Hours", PlainText(Get(ticket, "hours", Blank))>>,
      <<"Charge", "">>,
      <<"Job Desc", <<Get(ticket, "product", ""), " - ", Get(ticket, "customer", "")>>>>,
      <<"Company", "Rick's Oilfield Hauling">>,
      <<"Status", "Completed">>>>

apply_generate_axon_csv(ticket) ==
    /\ result' = Applied("generate_axon_csv", ticket, generate_axon_csv(ticket))
    /\ UNCHANGED <<dispatch, active, completed, batches, clock, faults, ops, scanned>>

NextFunctions ==
    \/ Idle /\ \E data \in StampData : apply_calculate_hours(data)
    \/ Idle /\ \E data \in StampData : apply_calculate_wait_time(data)
    \/ Idle /\ \E data \in StampData : apply_validate_timestamps(data)
    \/ Idle /\ \E a \in ActualVolumes, e \in EstVolumes : apply_validate_volume(a, e)
    \/ Idle /\ \E data \in CompletionInputs : apply_validate_completion(data)
    \/ Idle /\ \E data \in ExportInputs : apply_validate_export(data)
    \/ Idle /\ \E data \in CreationInputs, settings \in SettingsInputs :
           apply_validate_creation(data, settings)
    \/ Idle /\ \E data \in CreationInputs, settings \in SettingsInputs :
           apply_validate_ticket(data, settings)
    \/ Idle /\ \E ticket \in AxonInputs : apply_transform_to_axon(ticket)
    \/ Idle /\ \E ticket \in AxonInputs : apply_generate_axon_csv(ticket)

SpecFunctions == Init /\ [][NextFunctions]_vars

(* ======================================================================= *)
(*                                 claims                                  *)
(* ======================================================================= *)
Count(rows, tn) == Cardinality({ i \in DOMAIN rows : rows[i].ticket_number = tn })

AllTimestamps(row) == \A f \in TimestampFields : row[f] # Blank

Ordered(row) ==
    /\ row.arrive_load < row.depart_load
    /\ row.depart_load < row.arrive_offload
    /\ row.arrive_offload < row.depart_offload
    /\ row.depart_offload - row.arrive_load <= 24 * 60

\* C1: every record of the completed collection has hazard_check true,
\* signature true and all four timestamps present.
C1_CompletedChecked ==
    \A i \in DOMAIN completed :
        /\ completed[i].hazard_check = "Y"
        /\ completed[i].signature = "Y"
        /\ AllTimestamps(completed[i])

\* C2: a complete_ticket that returns failure leaves the active and the
\* completed collection exactly as they were before the call.
C2_FailedCompleteChangesNothing ==
    [][(result'.op = "complete" /\ ~result'.ok)
         => (active' = active /\ completed' = completed)]_vars

\* C3: every existing ticket number is held by exactly one record, in
\* exactly one of the active and completed collections.
C3_ExactlyOneCollection ==
    \A tn \in SeqToSet(dispatch) : Count(active, tn) + Count(completed, tn) = 1

C5_CompletedOrdered ==
    \A i \in DOMAIN completed : AllTimestamps(completed[i]) => Ordered(completed[i])

\* the lifecycle state of a ticket: that of its active record while it has
\* one, else that of its completed record
StateOf(a, c, tn) ==
    IF find_ticket_row(a, tn) # 0 THEN a[find_ticket_row(a, tn)].status
    ELSE IF find_ticket_row(c, tn) # 0 THEN c[find_ticket_row(c, tn)].status
    ELSE "CREATED"

\* C6: no operation moves a ticket's state backward in the order
\* CREATED < ASSIGNED < IN_PROGRESS < COMPLETED.
C6_StateNeverBackward ==
    [][\A tn \in SeqToSet(dispatch) :
          Rank(StateOf(active', completed', tn)) >= Rank(StateOf(active, completed, tn))]_vars

Exportable(row) ==
    /\ row.status = "COMPLETED"
    /\ row.actual_volume > 0
    /\ row.hours > 0
    /\ row.arrive_load # Blank

\* C7: every ticket written to a batch, and every record marked exported, has
\* state COMPLETED, actual_volume > 0, hours > 0 and arrive_load present.
C7_OnlyExportableExported ==
    /\ \A b \in DOMAIN batches : \A k \in DOMAIN batches[b].tickets :
          Exportable(batches[b].tickets[k])
    /\ \A i \in DOMAIN completed :
          completed[i].exported = "Y" => Exportable(completed[i])

\* C8: a completed record whose exported flag is set keeps it set (and keeps
\* its place and ticket number) through every operation.
C8_ExportedNeverCleared ==
    [][\A i \in DOMAIN completed :
          completed[i].exported = "Y"
          => /\ i \in DOMAIN completed'
             /\ completed'[i].ticket_number = completed[i].ticket_number
             /\ completed'[i].exported = "Y"]_vars

\* a record exported by an earlier run, with a later operation behind it
C8_Witness ==
    \E i \in DOMAIN completed :
        /\ completed[i].exported = "Y"
        /\ result.op # "export"

\* the records the filter of a run addresses
Matches(row, tickets_arg) == tickets_arg = {} \/ row.ticket_number \in tickets_arg

\* C9: an export run with force unset over a set of records that are all
\* exported already selects nothing, writes no batch, marks nothing and ends
\* without an error.
C9_ExportIdempotent ==
    [][result'.op = "export"
         => \A tickets_arg \in {{}} \cup {{tn} : tn \in SeqToSet(dispatch)} :
               (\A i \in DOMAIN completed :
                   Matches(completed[i], tickets_arg) => completed[i].exported = "Y")
               => \A no_mark \in BOOLEAN, fault \in ExportFaults :
                     main(tickets_arg, FALSE, no_mark, fault)
                     => /\ completed' = completed
                        /\ batches' = batches
                        /\ result' = Outcome("export", TRUE, "no_tickets")]_vars

\* a second run that found every record exported by the first
C9_Witness ==
    /\ result = Outcome("export", TRUE, "no_tickets")
    /\ clock >= 2
    /\ completed # <<>>
    /\ \A i \in DOMAIN completed : completed[i].exported = "Y"

\* C10: a run whose batch write fails changes no record of the completed
\* collection: the marking has not started.
C10_NoMarkOnWriteFailure ==
    [][(result'.op = "export" /\ result'.info = "write_failed")
          => completed' = completed]_vars

C10_Witness ==
    /\ result = Outcome("export", FALSE, "write_failed")
    /\ \E i \in DOMAIN completed : Selected(completed[i], {}, TRUE)

\* C11: when an export run with marking enabled finishes, every ticket whose
\* row was written to the batch is marked exported, and all of them carry the
\* export_file of that batch and one exported_at timestamp.
C11_BatchMarkedAlike ==
    [][(result'.op = "export" /\ result'.ok /\ result'.info = "marked")
         => LET b == batches'[Len(batches')]
            IN  \A k \in DOMAIN b.tickets : \A i \in DOMAIN completed' :
                   completed'[i].ticket_number = b.tickets[k].ticket_number
                   => /\ completed'[i].exported = "Y"
                      /\ completed'[i].export_file = b.file
                      /\ completed'[i].exported_at = clock']_vars

\* a record the selection loop skips for its volume or its hours
Invalid(row) ==
    \/ ~Truthy("actual_volume", row.actual_volume) \/ row.actual_volume <= 0
    \/ ~Truthy("hours", row.hours) \/ row.hours <= 0

\* C13: a completed record with actual_volume <= 0 or hours <= 0 (or either
\* absent) is in no export batch, and an export run leaves it unexported.
C13_InvalidStaysUnexported ==
    [][/\ \A b \in DOMAIN batches' : \A k \in DOMAIN batches'[b].tickets :
             ~Invalid(batches'[b].tickets[k])
       /\ \A i \in DOMAIN completed :
             (result'.op = "export" /\ Invalid(completed[i]) /\ completed[i].exported # "Y")
             => completed'[i].exported # "Y"]_vars

\* C19: every record of the active and of the completed collection carries a
\* ticket number that create assigned: update_field and complete_ticket leave
\* the ticket_number of a record as it was created.
C19_NumbersAsCreated ==
    /\ \A i \in DOMAIN active : active[i].ticket_number \in SeqToSet(dispatch)
    /\ \A i \in DOMAIN completed : completed[i].ticket_number \in SeqToSet(dispatch)

\* the filters of a call, as the claim reads them
MeetsFilters(row, a) ==
    /\ a.ticket_numbers # {} => row.ticket_number \in a.ticket_numbers
    /\ a.customer # "" => Lower(row.customer) = Lower(a.customer)
    /\ a.date_from # NoDate => a.date_from <= row.date
    /\ a.date_to # NoDate => row.date <= a.date_to

\* C12: with force unset get_completed_tickets returns no record whose
\* exported flag is set; every record it returns meets all supplied filters
\* together; with force set the exported records that meet the filters (and
\* have volume and hours) are returned too.
C12_SelectionRespectsFilters ==
    result.op = "select" =>
        LET a   == result.info.args
            out == result.info.tickets
        IN  /\ ~a.force => \A k \in DOMAIN out : out[k].exported # "Y"
            /\ \A k \in DOMAIN out : MeetsFilters(out[k], a)
            /\ a.force => \A i \in DOMAIN completed :
                  (completed[i].exported = "Y" /\ MeetsFilters(completed[i], a)
                     /\ ~Invalid(completed[i]))
                  => \E k \in DOMAIN out : out[k] = completed[i]

\* a forced selection by customer and date that returned an exported record
\* and left another record out
C12_Witness ==
    /\ result.op = "select"
    /\ result.info.args.force
    /\ result.info.args.customer = "ACME"
    /\ result.info.args.date_to # NoDate
    /\ \E k \in DOMAIN result.info.tickets :
          /\ result.info.tickets[k].exported = "Y"
          /\ result.info.tickets[k].customer = "Acme"
    /\ Len(result.info.tickets) < Len(completed)

\* the numbers of the day found in the three collections
UsedToday(d, a, c) ==
    { n \in { d[i] : i \in DOMAIN d } \cup { a[i].ticket_number : i \in DOMAIN a }
                                     \cup { c[i].ticket_number : i \in DOMAIN c } :
      StartsWith(n, Prefix) }

\* the digits that follow the six of the date
DaySequence(n) == IF n \div 1000 = Prefix THEN n % 1000 ELSE n - Prefix * 10000

\* C14: over used numbers of the form YYMMDDNNN, generate_ticket_number (of
\* the script and of the dispatch app) is the function that returns the
\* prefix followed by the highest used sequence plus one, and prefix 001
\* when no number of the day is used.
C14_NextNumber ==
    LET used == UsedToday(dispatch, active, completed)
        expected == IF used = {} THEN FormatNumber(Prefix, 1)
                    ELSE FormatNumber(Prefix, Max({ DaySequence(n) : n \in used }) + 1)
    IN  (\A n \in used : NineChars(n))
        => /\ script_generate_ticket_number(dispatch, active, completed, "none") = expected
           /\ generate_ticket_number(dispatch, active, completed) = expected

\* 001 and 002 are used and a create has been given 003
C14_Witness ==
    /\ result.op = "script_create"
    /\ result.ok
    /\ result.info.unavailable = "none"
    /\ result.info.number = FormatNumber(Prefix, 3)
    /\ dispatch = <<FormatNumber(Prefix, 1), FormatNumber(Prefix, 2), FormatNumber(Prefix, 3)>>

\* C15: a create that has scanned the store assigns a number that differs
\* from, and has a larger sequence than, every number of the day already in
\* the dispatch, active and completed collections.
C15_FreshAndIncreasing ==
    [][(result'.op = "script_create" /\ result'.ok /\ result'.info.unavailable = "none")
         => \A n \in UsedToday(dispatch, active, completed) :
               /\ result'.info.number # n
               /\ DaySequence(result'.info.number) > DaySequence(n)]_vars

\* C16: every number generate_ticket_number returns has 9 characters: the
\* prefix and a 3-digit sequence.
C16_NineCharacters ==
    (result.op = "script_create" /\ result.info.number # 0)
    => /\ NineChars(result.info.number)
       /\ result.info.number \div 1000 = Prefix

\* C17: when the scan cannot reach the spreadsheet or one of the three
\* worksheets, generate_ticket_number returns prefix 001 and no other number.
C17_FailedScanGivesFirst ==
    (result.op = "script_create" /\ result.info.unavailable # "none")
    => result.info.number = FormatNumber(Prefix, 1)

\* C18: a create whose number another create has appended since the scan
\* still appends its rows under that number: the store then holds two
\* records with one number.
C18_RaceDuplicates ==
    [][\A d \in Dispatchers :
          (scanned[d] \in SeqToSet(dispatch) /\ create_append(d))
          => /\ dispatch' = Append(dispatch, scanned[d])
             /\ Count(active', scanned[d]) = Count(active, scanned[d]) + 1]_vars

\* both dispatchers scanned before either appended, and both have appended
C18_Witness ==
    /\ InCreate = {}
    /\ Len(dispatch) = 2
    /\ dispatch[1] = dispatch[2]
    /\ Count(active, dispatch[1]) = 2

\* the four timestamps stand at T0, T0 + 1h, T0 + 3h and T0 + 4h
Journey(row) ==
    /\ row.arrive_load = 480
    /\ row.depart_load = 540
    /\ row.arrive_offload = 660
    /\ row.depart_offload = 720

\* C20: when the four timestamps were recorded by update_field at T0,
\* T0 + 1h, T0 + 3h and T0 + 4h, a complete_ticket with actual_volume 85.5,
\* hazard_check and signature and no hours succeeds and files a completed
\* record with hours 4.00, wait_time 2.00 and status COMPLETED.
C20_JourneyHours ==
    [][\A tn \in SeqToSet(dispatch) :
          (/\ find_ticket_row(active, tn) # 0
           /\ Journey(active[find_ticket_row(active, tn)])
           /\ complete_ticket(tn, DriverForm, "none"))
          => /\ result'.ok
             /\ completed'[Len(completed')].ticket_number = tn
             /\ completed'[Len(completed')].status = "COMPLETED"
             /\ completed'[Len(completed')].hours = 400
             /\ completed'[Len(completed')].wait_time = 200]_vars

(* ----------------- claims about the functions (SpecFunctions) ----------- *)
\* the input and the output of the function applied last
Given == result.info.in
Returned == result.info.out

AllParse(data) == \A f \in TimestampFields : Parses(data, f)

Chronological(data) ==
    /\ data.arrive_load < data.depart_load
    /\ data.depart_load < data.arrive_offload
    /\ data.arrive_offload < data.depart_offload

\* h hundredths of an hour is the two-decimal value nearest to m minutes
IsRounded(h, m) == 6 * h - 10 * m \in -3..3

\* C21: calculate_hours never returns a negative value; it returns 0 when
\* depart_offload is not later than arrive_load
C21_HoursNeverNegative ==
    result.op = "calculate_hours" =>
        /\ Returned >= 0
        /\ (Parses(Given, "arrive_load") /\ Parses(Given, "depart_offload")
              /\ Given.depart_offload <= Given.arrive_load) => Returned = 0

\* C22: for four ordered timestamps calculate_hours is depart_offload minus
\* arrive_load and calculate_wait_time is the sum of the two waits, in hours
\* rounded to two decimals (08:00 to 16:30 gives 8.50); each returns 0.0 when a
\* timestamp it needs is missing or malformed
C22_HoursAndWaitTime ==
    /\ result.op = "calculate_hours" =>
         /\ (AllParse(Given) /\ Chronological(Given)) =>
                IsRounded(Returned, Given.depart_offload - Given.arrive_load)
         /\ (Get(Given, "arrive_load", Blank) = 480
               /\ Get(Given, "depart_offload", Blank) = 990) => Returned = 850
         /\ (\E f \in {"arrive_load", "depart_offload"} :
                Get(Given, f, Blank) \in {Blank, Malformed}) => Returned = 0
    /\ result.op = "calculate_wait_time" =>
         /\ (AllParse(Given) /\ Chronological(Given)) =>
                IsRounded(Returned, (Given.depart_load - Given.arrive_load)
                                    + (Given.depart_offload - Given.arrive_offload))
         /\ (\E f \in TimestampFields :
                Get(Given, f, Blank) \in {Blank, Malformed}) => Returned = 0

C22_Witness ==
    /\ result.op = "calculate_wait_time"
    /\ Given = [arrive_load |-> 480, depart_load |-> 520, arrive_offload |-> 600,
                depart_offload |-> 990]
    /\ Returned = 717

\* the profile reports an error about the field
Reports(out, field) == \E i \in DOMAIN out.errors : out.errors[i][2] = field

\* the profile reports the timestamp error with this message
ReportsStamp(out, message) ==
    \E i \in DOMAIN out.errors :
        /\ out.errors[i][2] = "timestamps"
        /\ out.errors[i][1][1] = message

\* the profile reports the named timestamp as malformed
ReportsMalformed(out, f) ==
    \E i \in DOMAIN out.errors :
        /\ out.errors[i][2] = "timestamps"
        /\ out.errors[i][1] = <<"Invalid timestamp format", f>>

\* C23: validate_completion reports the hazard_check error exactly when
\* hazard_check is falsy and the signature error exactly when signature is
\* falsy; a truthy value never produces that error
C23_ErrorOnlyWhenFalsy ==
    result.op = "validate_completion" =>
        /\ Reports(Returned, "hazard_check") <=> Given.hazard_check = ""
        /\ Reports(Returned, "signature") <=> Given.signature = ""

\* C24: validate_export is invalid, with a status error, for every ticket that
\* is not COMPLETED; for a COMPLETED ticket it is valid exactly when
\* actual_volume > 0, hours > 0 and arrive_load is present
C24_ExportProfile ==
    result.op = "validate_export" =>
        IF Given.status \in {"COMPLETED", "completed"}
        THEN /\ ~Reports(Returned, "status")
             /\ Returned.valid <=>
                    /\ Given.actual_volume # Blank /\ Given.actual_volume > 0
                    /\ Given.hours # Blank /\ Given.hours > 0
                    /\ Given.arrive_load # Blank
        ELSE ~Returned.valid /\ Reports(Returned, "status")

C24_Witness ==
    /\ result.op = "validate_export"
    /\ Given.status = "COMPLETED"
    /\ Given.actual_volume = 8550
    /\ Returned.valid

\* the warnings and errors of validate_volume, by their message
Says(entries, message) == \E i \in DOMAIN entries : entries[i][1] = message

C26_StrictOrderWithinADay ==
    /\ (result.op = "validate_timestamps" /\ AllParse(Given)) =>
           (Returned = <<>> <=> Ordered(Given))
    /\ (result.op = "validate_completion" /\ AllParse(Given) /\ ~Ordered(Given)) =>
           /\ Reports(Returned, "timestamps")
           /\ ~Returned.valid
           /\ \A i \in DOMAIN Returned.warnings :
                  Returned.warnings[i][2] # "timestamps"

C26_Witness ==
    /\ result.op = "validate_timestamps"
    /\ AllParse(Given)
    /\ Given.arrive_load = Given.depart_load
    /\ Given.depart_load < Given.arrive_offload
    /\ Given.arrive_offload < Given.depart_offload
    /\ Returned = <<Entry("Departed pickup before arriving", "")>>

\* C27: validation collects every failure: each missing timestamp, each
\* malformed one, each ordering violation, the 24-hour span, the volume, the
\* hazard_check and the signature are reported whatever else is wrong
C27_EveryFailureReported ==
    result.op = "validate_completion" =>
        LET d == Given
            both(f, g) == Parses(d, f) /\ Parses(d, g)
        IN  /\ \A f \in TimestampFields : d[f] = Blank => Reports(Returned, f)
            /\ \A f \in TimestampFields :
                   d[f] = Malformed => ReportsMalformed(Returned, f)
            /\ (both("arrive_load", "depart_load") /\ d.depart_load <= d.arrive_load)
                   => ReportsStamp(Returned, "Departed pickup before arriving")
            /\ (both("depart_load", "arrive_offload")
                  /\ d.arrive_offload <= d.depart_load)
                   => ReportsStamp(Returned, "Arrived at delivery before leaving pickup")
            /\ (both("arrive_offload", "depart_offload")
                  /\ d.depart_offload <= d.arrive_offload)
                   => ReportsStamp(Returned, "Departed delivery before arriving")
            /\ (both("arrive_load", "depart_offload")
                  /\ d.depart_offload - d.arrive_load > 24 * 60)
                   => ReportsStamp(Returned, "Total time exceeds 24 hours")
            /\ (d.actual_volume = Blank \/ d.actual_volume <= 0)
                   => Reports(Returned, "actual_volume")
            /\ d.hazard_check = "" => Reports(Returned, "hazard_check")
            /\ d.signature = "" => Reports(Returned, "signature")

\* C28: in the creation, completion and export profiles valid is true exactly
\* when the list of errors is empty; warnings alone never make a ticket invalid
C28_ValidIffNoErrors ==
    result.op \in {"validate_creation", "validate_completion", "validate_export"} =>
        (Returned.valid <=> Returned.errors = <<>>)

C28_Witness ==
    /\ result.op = "validate_completion"
    /\ Returned.warnings # <<>>
    /\ Returned.errors = <<>>
    /\ Returned.valid

\* the location is an LSD or a name of at least two characters
GoodLocation(value) ==
    MatchesLsd(Strip(value)) \/ CharCount(Strip(value)) >= 2

\* what the creation profile is said to reject
ShouldReject(data, settings) ==
    \/ \E i \in DOMAIN RequiredFields : data[RequiredFields[i]] = ""
    \/ \E p \in {<<"customer", "CUSTOMERS">>, <<"driver", "DRIVERS">>,
                 <<"product", "PRODUCTS">>, <<"truck", "TRUCKS">>,
                 <<"trailer", "TRAILERS">>} :
           /\ settings[p[2]] # {}
           /\ data[p[1]] # ""
           /\ data[p[1]] \notin settings[p[2]]
    \/ \E f \in {"from_lsd", "to_lsd"} : ~GoodLocation(data[f])

\* C29: the creation profile rejects a ticket exactly when a required field is
\* missing or empty, or customer, driver, product, truck or trailer is outside
\* a supplied non-empty vocabulary, or a location is neither an LSD nor free
\* text of at least two characters
C29_CreationRejectsExactly ==
    result.op \in {"validate_creation", "validate_ticket"} =>
        (~Returned.valid <=> ShouldReject(Given.data, Given.settings))

\* the value the AXON record holds under a column
Value(record, column) ==
    LET i == CHOOSE i \in DOMAIN record : record[i][1] = column
    IN  record[i][2]

\* the text with two decimals is the value nearest to the number in thousandths
Nearest(text, thousandths) ==
    LET cents == 100 * text.whole + 10 * text.decimals[1] + text.decimals[2]
        signed == IF text.negative THEN 0 - cents ELSE cents
    IN  10 * signed - thousandths \in -5..5

\* C30: the record of transform_to_axon has exactly the 19 AXON columns in
\* their order, Attachment "FALSE", Product2, Reference and Charge empty,
\* Status "Completed", the fixed Company, and Actual Vol and Hours written with
\* exactly two decimals (85.5 as 85.50, 4 as 4.00)
C30_AxonRecord ==
    (result.op = "transform_to_axon" /\ result.ok) =>
        /\ Len(Returned) = 19
        /\ [i \in DOMAIN Returned |-> Returned[i][1]] = AXON_COLUMNS
        /\ Value(Returned, "Attachment") = "FALSE"
        /\ Value(Returned, "Product2") = ""
        /\ Value(Returned, "Reference") = ""
        /\ Value(Returned, "Charge") = ""
        /\ Value(Returned, "Status") = "Completed"
        /\ Value(Returned, "Company") = "Rick's Oilfield Hauling"
        /\ Len(Value(Returned, "Actual Vol").decimals) = 2
        /\ Len(Value(Returned, "Hours").decimals) = 2
        /\ Nearest(Value(Returned, "Actual Vol"), Given.actual_volume)
        /\ Nearest(Value(Returned, "Hours"), Given.hours)
        /\ Given.actual_volume = 85500 =>
               Value(Returned, "Actual Vol") =
                   [negative |-> FALSE, whole |-> 85, decimals |-> <<5, 0>>]
        /\ Given.hours = 4000 =>
               Value(Returned, "Hours") =
                   [negative |-> FALSE, whole |-> 4, decimals |-> <<0, 0>>]

C30_Witness ==
    /\ result.op = "transform_to_axon"
    /\ result.ok
    /\ Given.actual_volume = 85500
    /\ Given.hours = 4000
    /\ Value(Returned, "Actual Vol").decimals = <<5, 0>>

\* every timestamp is a whole number of 0.05 hours, so no rounding happens
OnGrid(data) == \A f \in TimestampFields : data[f] % 3 = 0

\* C38: for arrive_load < depart_load < arrive_offload < depart_offload on a
\* grid where the two-decimal rounding is exact, the derived wait_time is
\* greater than 0, does not exceed the derived hours, and is the hours minus
\* the travel time from depart_load to arrive_offload
C38_WaitWithinHours ==
    (result.op = "calculate_wait_time" /\ AllParse(Given) /\ Chronological(Given)
       /\ OnGrid(Given)) =>
        /\ Returned > 0
        /\ Returned <= calculate_hours(Given)
        /\ 3 * (calculate_hours(Given) - Returned)
               = 5 * (Given.arrive_offload - Given.depart_load)

C38_Witness ==
    /\ result.op = "calculate_wait_time"
    /\ Given = [arrive_load |-> 480, depart_load |-> 600, arrive_offload |-> 990,
                depart_offload |-> 1920]
    /\ Returned = 1750
    /\ calculate_hours(Given) = 2400

\* C39: for every completed ticket the record of ar_export_app's
\* generate_axon_csv equals, column by column over the 19 columns, the record
\* transform_to_axon builds from the same field values, the two-decimal form
\* of Actual Vol and Hours included
C39_TransformersAgree ==
    (result.op = "generate_axon_csv" /\ Given.actual_volume # Blank
       /\ Given.hours # Blank) =>
        \A i \in 1..19 :
            /\ Returned[i][1] = transform_to_axon(Given)[i][1]
            /\ Returned[i][2] = transform_to_axon(Given)[i][2]

(* ------------------------ claims about update_field -------------------- *)
\* C32: when update_field records arrive_load for a ticket in state ASSIGNED
\* the ticket is IN_PROGRESS when the operation returns success, and this is
\* the only way a ticket goes from ASSIGNED to IN_PROGRESS; recording
\* depart_load, arrive_offload or depart_offload leaves the state unchanged
C32_StartedByArriveLoad ==
    [][\A tn \in SeqToSet(dispatch) :
          /\ (StateOf(active, completed, tn) = "ASSIGNED"
                /\ (\E v \in UpdateValues("arrive_load") :
                       update_field(tn, "arrive_load", v))
                /\ result'.ok)
             => StateOf(active', completed', tn) = "IN_PROGRESS"
          /\ (StateOf(active, completed, tn) = "ASSIGNED"
                /\ StateOf(active', completed', tn) = "IN_PROGRESS")
             => \E v \in UpdateValues("arrive_load") : update_field(tn, "arrive_load", v)
          /\ \A f \in TimestampFields \ {"arrive_load"} :
                (\E v \in UpdateValues(f) : update_field(tn, f, v))
                => StateOf(active', completed', tn) = StateOf(active, completed, tn)]_vars

\* the columns a successful update of the field may write
Written(f) ==
    {f, "updated_at"} \cup (IF f = "arrive_load" THEN {"status"} ELSE {})

\* C33: update_field on a ticket of the active collection and a known field
\* succeeds without running completion validation and changes only that field
\* of that ticket (plus updated_at, and status when the field is arrive_load);
\* when the ticket is not in the active collection or the field is unknown it
\* returns a failure and changes no stored value
C33_UpdateChangesOneField ==
    [][result'.op = "update"
         => \A tn \in Callable, f \in UpdateFields : \A v \in UpdateValues(f) :
               (result'.info \in {f, "not_found", "no_field"} /\ update_field(tn, f, v))
               => LET r == find_ticket_row(active, tn)
                  IN  /\ dispatch' = dispatch /\ completed' = completed
                      /\ batches' = batches
                      /\ IF r # 0 /\ f \in ActiveHeaders
                         THEN /\ result'.ok
                              /\ Len(active') = Len(active)
                              /\ \A i \in DOMAIN active : i # r => active'[i] = active[i]
                              /\ \A h \in ActiveHeaders \ Written(f) :
                                    active'[r][h] = active[r][h]
                              /\ active'[r][f] = v
                         ELSE ~result'.ok /\ active' = active]_vars

\* depart_load recorded on a ticket that has no arrive_load yet
C33_Witness ==
    /\ result = Outcome("update", TRUE, "depart_load")
    /\ \E i \in DOMAIN active :
          /\ active[i].depart_load = 540
          /\ active[i].arrive_load = Blank
          /\ active[i].status = "ASSIGNED"

\* C34: operations addressed to one ticket affect only that ticket's record
\* when workers act on different tickets at the same time: after another
\* worker's complete_ticket has deleted a different row between the lookup and
\* the write, update_field's cell writes and complete_ticket's delete still
\* hit the row of the ticket they were called for
C34_WriteHitsOwnRow ==
    [][\A w \in Workers :
          (scanned[w].op # "none" /\ Count(active, scanned[w].tn) = 1) =>
          /\ update_write(w)
             => \A i \in DOMAIN active' :
                   (i \notin DOMAIN active \/ active'[i] # active[i])
                   => /\ i \in DOMAIN active
                      /\ active[i].ticket_number = scanned[w].tn
          /\ complete_move(w)
             => /\ Len(active') = Len(active) - 1
                /\ Count(active', scanned[w].tn) = Count(active, scanned[w].tn) - 1]_vars

(* ---------------------- claims about the export run -------------------- *)
\* C31: when the store is unreachable while an export run selects tickets or
\* while it marks them, the run ends as a failure: it does not report tickets
\* as marked whose marks were not written, and it does not report the
\* unreachable store as an empty set of tickets to export.
C31_StoreFailureReported ==
    [][result'.op = "export"
         => \A tickets_arg \in {{}} \cup {{tn} : tn \in SeqToSet(dispatch)} :
               \A force \in BOOLEAN, no_mark \in BOOLEAN, fault \in {"select", "mark"} :
                  main(tickets_arg, force, no_mark, fault) => ~result'.ok]_vars

\* C36: an export run sets the exported flag only on records whose row was
\* written to that run's batch: a record the run skipped or filtered out is
\* not marked by it, also when several records carry one ticket number.
C36_OnlyWrittenRowsMarked ==
    [][result'.op = "export"
         => \A i \in DOMAIN completed :
               (completed[i].exported # "Y" /\ completed'[i].exported = "Y")
               => /\ Len(batches') = Len(batches) + 1
                  /\ \E k \in DOMAIN batches'[Len(batches')].tickets :
                        batches'[Len(batches')].tickets[k] = completed[i]]_vars

Eligible(row) == row.actual_volume > 0 /\ row.hours > 0

\* C37: while export-all runs with marking are repeated on an available
\* store, every completed record with actual_volume > 0 and hours > 0 is
\* eventually marked exported; and one such run leaves no eligible record
\* that was in the collection at its start unexported.
C37_EligibleEventuallyExported ==
    /\ []<>(\A i \in DOMAIN completed :
               Eligible(completed[i]) => completed[i].exported = "Y")
    /\ [][export_run({}, FALSE, FALSE, "none")
            => \A i \in DOMAIN completed :
                  Eligible(completed[i]) => completed'[i].exported = "Y"]_vars

\* two runs have marked two tickets that were completed one after the other
C37_Witness ==
    /\ result = Outcome("export", TRUE, "marked")
    /\ \E i, j \in DOMAIN completed :
          /\ Eligible(completed[i]) /\ Eligible(completed[j])
          /\ completed[i].exported = "Y" /\ completed[j].exported = "Y"
          /\ completed[i].export_file < completed[j].export_file

====
